---------------------------- MODULE Spec2Model ----------------------------
(***************************************************************************)
(* Model of the review monitor of que-morfamos-scraper:                    *)
(*   monitor_reviews.py  (run_monitor, procesar_lugar)                     *)
(*   scraping_utils.py   (generar_id_review, extraer_reviews_de_pagina)    *)
(*   db_utils.py         (upsert_lugar, insertar_reviews_batch,            *)
(*                        get_lugares_para_monitoreo, log_* )              *)
(*                                                                         *)
(* Strings are sequences of one-character strings, so that lower(),        *)
(* strip(), slicing, split()/join() and startswith() are computed and not  *)
(* assumed.                                                                *)
(***************************************************************************)
EXTENDS Integers, Sequences, FiniteSets, TLC

(***************************************************************************)
(* Text primitives (Python str methods and the SQL functions used).        *)
(***************************************************************************)

\* str.isspace() on one character
IsSpace(c) == c \in {" ", "\t", "\n"}

\* str.lower() on one character of the model's alphabet
LowerChar(c) == CASE c = "A" -> "a"
                  [] c = "B" -> "b"
                  [] c = "N" -> "n"
                  [] OTHER -> c

\* s.lower()
LowerStr(s) == [k \in 1..Len(s) |-> LowerChar(s[k])]

\* s[:n]  (also SQL LEFT(s, n))
Take(s, n) == IF Len(s) <= n THEN s ELSE SubSeq(s, 1, n)

\* s.strip()  (also SQL TRIM on the model's alphabet)
Strip(s) ==
    LET idx == {k \in 1..Len(s) : ~IsSpace(s[k])}
    IN  IF idx = {} THEN <<>>
        ELSE LET lo == CHOOSE k \in idx : \A j \in idx : k <= j
                 hi == CHOOSE k \in idx : \A j \in idx : k >= j
             IN  SubSeq(s, lo, hi)

\* ' '.join(s.split()): runs of whitespace become one blank, the ends are
\* stripped
RECURSIVE CollapseFrom(_, _, _)
CollapseFrom(s, k, acc) ==
    IF k > Len(s) THEN acc
    ELSE IF IsSpace(s[k])
         THEN IF acc = <<>> \/ acc[Len(acc)] = " "
              THEN CollapseFrom(s, k + 1, acc)
              ELSE CollapseFrom(s, k + 1, Append(acc, " "))
         ELSE CollapseFrom(s, k + 1, Append(acc, s[k]))

Collapse(s) == Strip(CollapseFrom(s, 1, <<>>))

\* s.startswith(p); also "s LIKE p || '%'" for a p without the wildcards
\* % and _ (the model's alphabet has neither)
StartsWith(s, p) == Len(p) <= Len(s) /\ SubSeq(s, 1, Len(p)) = p

\* SQL TRIM(s): strips blanks only
SqlTrim(s) ==
    LET idx == {k \in 1..Len(s) : s[k] # " "}
    IN  IF idx = {} THEN <<>>
        ELSE LET lo == CHOOSE k \in idx : \A j \in idx : k <= j
                 hi == CHOOSE k \in idx : \A j \in idx : k >= j
             IN  SubSeq(s, lo, hi)

(***************************************************************************)
(* Program constants.                                                      *)
(***************************************************************************)
MAX_RUNTIME_HOURS == 5
MAX_RUNTIME_SECONDS == MAX_RUNTIME_HOURS * 3600
\* generar_id_review: texto[:50]
ID_PREFIJO == 50
\* early-stop and insert-time check: texto[:100], then [:50] of the pattern
NORM_VENTANA == 100
MATCH_PREFIJO == 50
\* run_monitor: get_ultimas_N_reviews_restaurante(nombre, n=2)
N_ULTIMAS == 2

(***************************************************************************)
(* Fingerprint (scraping_utils.generar_id_review).  hashlib.md5(...)[:16]  *)
(* is taken as injective on the pre-hash string: the id is represented by  *)
(* the string that is hashed.                                              *)
(***************************************************************************)
\* None, a field that is missing
NULO == <<"None">>

\* (x or ""): None and the empty string give the empty string
OVacio(x) == IF x = NULO THEN <<>> ELSE x

UniqueStr(url, autor, fecha, texto) ==
    LET texto_norm == Strip(LowerStr(Take(OVacio(texto), ID_PREFIJO)))
        autor_norm == Strip(LowerStr(OVacio(autor)))
        fecha_norm == Strip(LowerStr(OVacio(fecha)))
    IN  url \o <<"|">> \o autor_norm \o <<"|">> \o fecha_norm \o <<"|">> \o texto_norm

generar_id_review(url, autor, fecha, texto) == UniqueStr(url, autor, fecha, texto)

(***************************************************************************)
(* Early-stop extraction (scraping_utils.extraer_reviews_de_pagina).       *)
(* A block is [autor, texto, fecha]: the raw element texts of one          *)
(* div.jftiEf.  ultimas is the list handed in by run_monitor, entries      *)
(* [autor, texto_inicio].                                                  *)
(***************************************************************************)
\* lines 304-309: one block against one stored entry
CoincideConDb(autor, texto, review_db) ==
    LET autor_norm == LowerStr(Strip(autor))
        texto_norm == Collapse(LowerStr(Take(texto, NORM_VENTANA)))
    IN  /\ autor_norm = review_db.autor
        /\ StartsWith(texto_norm, Take(review_db.texto_inicio, MATCH_PREFIJO))

\* lines 317-339: the row built from one block
FilaDeBloque(bloque, url, nombre) ==
    LET autor == Strip(bloque.autor)
        texto == Strip(bloque.texto)
        fecha_texto == Strip(bloque.fecha)
    IN  [restaurante |-> nombre, autor |-> autor, texto |-> texto,
         fecha_original |-> fecha_texto, url |-> url,
         review_id |-> generar_id_review(url, autor, fecha_texto, texto)]

\* The loop with "continue" where the code has "break": a matching block
\* is skipped and the blocks after it are still extracted.
RECURSIVE ExtraerDesdeSinCorte(_, _, _, _, _, _)
ExtraerDesdeSinCorte(bloques, k, url, nombre, ultimas, acc) ==
    IF k > Len(bloques)
    THEN [reviews |-> acc, early_stopped |-> Len(acc) < Len(bloques)]
    ELSE LET autor == Strip(bloques[k].autor)
             texto == Strip(bloques[k].texto)
             hit == /\ ultimas # <<>>
                    /\ \E j \in 1..Len(ultimas) : CoincideConDb(autor, texto, ultimas[j])
         IN  IF hit THEN ExtraerDesdeSinCorte(bloques, k + 1, url, nombre, ultimas, acc)
             ELSE ExtraerDesdeSinCorte(bloques, k + 1, url, nombre, ultimas,
                                       Append(acc, FilaDeBloque(bloques[k], url, nombre)))

\* the for loop of lines 295-354, from block k on, acc the rows so far
RECURSIVE ExtraerDesde(_, _, _, _, _, _)
ExtraerDesde(bloques, k, url, nombre, ultimas, acc) ==
    IF k > Len(bloques) THEN [reviews |-> acc, early_stopped |-> FALSE]
    ELSE LET autor == Strip(bloques[k].autor)
             texto == Strip(bloques[k].texto)
             hit == /\ ultimas # <<>>
                    /\ \E j \in 1..Len(ultimas) : CoincideConDb(autor, texto, ultimas[j])
         IN  IF hit THEN [reviews |-> acc, early_stopped |-> TRUE]
             ELSE ExtraerDesde(bloques, k + 1, url, nombre, ultimas,
                               Append(acc, FilaDeBloque(bloques[k], url, nombre)))

extraer_reviews_de_pagina(bloques, url, nombre, ultimas) ==
    ExtraerDesde(bloques, 1, url, nombre, ultimas, <<>>)

(***************************************************************************)
(* The reviews table is a sequence of rows in insertion order; a row has   *)
(* the columns the INSERT of insertar_reviews_batch writes and the         *)
(* monitor reads back (restaurante, autor, texto, fecha_original,          *)
(* review_id).                                                             *)
(***************************************************************************)
FilaTabla(review) ==
    [restaurante |-> review.restaurante, autor |-> review.autor,
     texto |-> review.texto, fecha_original |-> review.fecha_original,
     review_id |-> review.review_id]

\* the SELECT 1 ... LIMIT 1 of lines 208-214
YaExiste(tabla, review) ==
    LET texto_norm == Collapse(LowerStr(Take(review.texto, NORM_VENTANA)))
        autor_norm == LowerStr(Strip(review.autor))
    IN  \E k \in 1..Len(tabla) :
            /\ tabla[k].restaurante = review.restaurante
            /\ LowerStr(SqlTrim(tabla[k].autor)) = autor_norm
            /\ StartsWith(LowerStr(Take(tabla[k].texto, NORM_VENTANA)),
                          Take(texto_norm, MATCH_PREFIJO))

\* One pass of the for loop of lines 200-250 from review k on.  st is
\* [tabla, insertadas, duplicadas, abortada]: abortada is the PostgreSQL
\* transaction state after a statement failed (a unique index on review_id
\* rejecting the INSERT); every later statement of the transaction fails
\* and the COMMIT rolls back, so the batch stores nothing.
RECURSIVE InsertarDesde(_, _, _, _)
InsertarDesde(reviews_data, k, indice, st) ==
    IF k > Len(reviews_data) THEN st
    ELSE IF st.abortada THEN st
    ELSE IF YaExiste(st.tabla, reviews_data[k])
         THEN InsertarDesde(reviews_data, k + 1, indice,
                            [st EXCEPT !.duplicadas = @ + 1])
    ELSE IF indice /\ \E j \in 1..Len(st.tabla) :
                         st.tabla[j].review_id = reviews_data[k].review_id
         THEN InsertarDesde(reviews_data, k + 1, indice,
                            [st EXCEPT !.duplicadas = @ + 1, !.abortada = TRUE])
    ELSE InsertarDesde(reviews_data, k + 1, indice,
                       [st EXCEPT !.tabla = Append(@, FilaTabla(reviews_data[k])),
                                  !.insertadas = @ + 1])

\* db_utils.insertar_reviews_batch: the table after the call and the pair
\* it returns.  conectado is get_connection() succeeding; indice says
\* whether the table carries a unique index on review_id.
insertar_reviews_batch(tabla, reviews_data, indice, conectado) ==
    IF reviews_data = <<>> \/ ~conectado
    THEN [tabla |-> tabla, insertadas |-> 0, duplicadas |-> 0]
    ELSE LET fin == InsertarDesde(reviews_data, 1, indice,
                        [tabla |-> tabla, insertadas |-> 0,
                         duplicadas |-> 0, abortada |-> FALSE])
         IN  [tabla |-> IF fin.abortada THEN tabla ELSE fin.tabla,
              insertadas |-> fin.insertadas, duplicadas |-> fin.duplicadas]

\* db_utils.get_ultimas_N_reviews_restaurante is imported and called by
\* monitor_reviews.py but is not defined in db_utils.py: the n most recently
\* stored rows of the restaurant, most recent first, each as the pair
\* extraer_reviews_de_pagina reads (autor and texto_inicio in the form the
\* caller compares against).
RECURSIVE UltimasDesde(_, _, _, _, _)
UltimasDesde(tabla, k, restaurante, n, acc) ==
    IF k = 0 \/ Len(acc) = n THEN acc
    ELSE IF tabla[k].restaurante = restaurante
         THEN UltimasDesde(tabla, k - 1, restaurante, n,
                  Append(acc, [autor |-> LowerStr(Strip(tabla[k].autor)),
                               texto_inicio |->
                                   Collapse(LowerStr(Take(tabla[k].texto, NORM_VENTANA)))]))
         ELSE UltimasDesde(tabla, k - 1, restaurante, n, acc)

get_ultimas_N_reviews_restaurante(tabla, restaurante, n) ==
    UltimasDesde(tabla, Len(tabla), restaurante, n, <<>>)

(***************************************************************************)
(* Places and what their pages can show.                                   *)
(***************************************************************************)
URL1 == <<"u", "1">>
URL2 == <<"u", "2">>
URL3 == <<"u", "3">>
URL4 == <<"u", "4">>
URL5 == <<"u", "5">>

Digitos == <<"0", "1", "2", "3", "4", "5", "6", "7", "8", "9">>

\* the places of a long list, numbered from 10
UrlN(n) == <<"u", Digitos[(n \div 10) + 1], Digitos[(n % 10) + 1]>>

\* lugares.nombre: distinct per place (the name-collision branch of
\* upsert_lugar, lines 93-120, needs two places of one name)
Nombre(url) == <<"N">> \o url

Bloque(a, t, f) == [autor |-> a, texto |-> t, fecha |-> f]

\* The reviews a place's page comes to show, in the order they are
\* published.  URL1 gets a plain review, one whose author and text carry
\* capitals, and one whose text has a run of two blanks; URL2 gets one
\* plain review, and so does the place 10 of the long list; the other
\* places get none.
Universo(url) ==
    IF url = URL1
    THEN <<Bloque(<<"n", "e", "a">>, <<"b", "a">>, <<"h", "a", "c", "e">>),
           Bloque(<<"B", "e", "a">>, <<"A", "b">>, <<"h", "a", "c", "e">>),
           Bloque(<<"a", "n", "a">>, <<"a", " ", " ", "b">>, <<"h", "a", "c", "e">>)>>
    ELSE IF url = URL2 \/ url = UrlN(10)
    THEN <<Bloque(<<"a", "n", "a">>, <<"a", "b">>, <<"h", "a", "c", "e">>)>>
    ELSE <<>>

(***************************************************************************)
(* Bounds of the model.                                                    *)
(***************************************************************************)
\* timestamps handed out by NOW(), one per visit: the last one of a
\* behaviour over three places, over the one place URL1, and over four
\* places
MaxReloj == 5
MaxRelojLugar == 4
MaxRelojCuatro == 5
\* rows in the reviews table
MaxFilas == 4
\* places of the long list, and the last timestamp of a behaviour over it
MaxLargo == 51
MaxRelojLargo == 53

UrlsLargo == {UrlN(n) : n \in 10..(9 + MaxLargo)}

NumeroDe(url) == CHOOSE n \in 10..(9 + MaxLargo) : UrlN(n) = url

RelojTope(U) == IF URL1 \in U THEN MaxRelojLugar
                ELSE IF URL5 \in U THEN MaxRelojCuatro
                ELSE IF UrlN(10) \in U THEN MaxRelojLargo
                ELSE MaxReloj

\* seconds one place can take (the loop body of run_monitor): 25/60 of the
\* budget, or the whole budget
VEINTICINCO == (MAX_RUNTIME_SECONDS * 25) \div 60
\* a place of the long list takes a hundredth of the budget
CENTESIMA == MAX_RUNTIME_SECONDS \div 100
Duraciones(U) == IF URL1 \in U \/ URL5 \in U THEN {VEINTICINCO}
                 ELSE IF UrlN(10) \in U THEN {CENTESIMA}
                 ELSE {VEINTICINCO, MAX_RUNTIME_SECONDS}

\* The first position of the list whose visit can go any way.  In the long
\* list the places before the last three are visited without incident
\* (the page opens, shows nothing new, and every statement succeeds); in
\* the short lists every visit can go any way.
Cola(U) == IF UrlN(10) \in U THEN Cardinality(U) - 2 ELSE 1

\* the reviews table has a unique index on review_id, or not; the index can
\* only matter where a place shows more than one review
Indices(U) == IF URL1 \in U THEN BOOLEAN ELSE {FALSE}

\* fecha_scraping before the first run: NULL (0) for the place that was
\* never scraped, the discovery pass (1) for the others
\* the places of the long list were discovered one after the other long
\* before the first run, but for place 10 that came with the last pass
FechaInicial(url) == IF url \in {URL1, URL2} THEN 0
                     ELSE IF url \in {URL3, URL4, URL5, UrlN(10)} THEN 1
                     ELSE NumeroDe(url) - 100

(***************************************************************************)
(* State.                                                                  *)
(***************************************************************************)
VARIABLES
    lugares,        \* table lugares: url -> [total_reviews_google, fecha_scraping]
    reviews,        \* table reviews (sequence of rows)
    indice_unico,   \* the table reviews has a unique index on review_id
    historial,      \* review_history: url -> review_count of its latest row
    scraping_logs,  \* table scraping_logs: the rows of the current run
    fuente,         \* the remote page: url -> blocks, newest first
    reloj,          \* the database clock, NOW()
    pc,             \* position of run_monitor
    lista,          \* lugares, the list of the run
    i,              \* the loop index (1-based)
    tiempo,         \* time.time() - start_time
    procesados, errores_consecutivos, timed_out,
    driver,         \* "ninguno", "vivo", "cerrado"
    sesion,         \* vivos: Chrome instances created and not quit;
                    \* servidos: places handed to the driver now held
    senal,          \* number of CONTINUE_NEEDED lines printed by the run
    visita,         \* what the last loop body did (observation)
    vista,          \* url -> what the last successful visit saw (observation)
    cuenta,         \* counts of runs and visits (observation)
    entrada,        \* the arguments of a function applied on its own
    salida,         \* what it returned
    estado_csv,     \* estado_reviews.csv: link -> estado ("" without a row)
    pendientes,     \* the review scraper's list of the run
    pcs,            \* position of the review scraper
    paso,           \* its loop index (1-based)
    lugares_emb,    \* table lugares, the columns of the summaries:
                    \* nombre -> [resumen_reviews, embedding_updated_at]
    reviews_lugar,  \* table reviews by place: nombre -> reviews, oldest first
    vectores,       \* langchain_pg_embedding: nombre -> versions embedded
    pase,           \* position and locals of regenerate_incremental
    hoy,            \* the date
    scroll,         \* position and locals of scroll_para_cargar_reviews
    reviews_csv     \* reviews_neuquen.csv: the rows, in file order

dbVars == <<lugares, reviews, indice_unico, historial, scraping_logs>>
runVars == <<pc, lista, i, tiempo, procesados, errores_consecutivos, timed_out,
             driver, sesion, senal>>
obsVars == <<visita, vista, cuenta>>
monitorVars == <<dbVars, fuente, reloj, runVars, obsVars>>
funVars == <<entrada, salida>>
scraperVars == <<estado_csv, pendientes, pcs, paso>>
regenVars == <<lugares_emb, reviews_lugar, vectores, pase, hoy>>
otrosVars == <<regenVars, scroll, reviews_csv>>
vars == <<monitorVars, funVars, scraperVars, otrosVars>>

Urls == DOMAIN lugares

(***************************************************************************)
(* db_utils: the lugares table.                                            *)
(***************************************************************************)
Max(a, b) == IF a >= b THEN a ELSE b

\* upsert_lugar with EXCLUDED.total_reviews_google taken as it comes
upsert_lugar_excluded(tabla, url, total_reviews_google, ahora, ok) ==
    IF ok
    THEN [tabla EXCEPT ![url] =
              [total_reviews_google |-> total_reviews_google,
               fecha_scraping |-> ahora]]
    ELSE tabla

\* upsert_lugar, the ON CONFLICT (url) DO UPDATE branch (lines 136-147):
\* GREATEST on the count, NOW() on fecha_scraping.  ok is the statement and
\* its commit succeeding; otherwise the function returns False (lines 82-83,
\* 169-175) and the row is as before.
upsert_lugar(tabla, url, total_reviews_google, ahora, ok) ==
    IF ok
    THEN [tabla EXCEPT ![url] =
              [total_reviews_google |-> Max(@.total_reviews_google, total_reviews_google),
               fecha_scraping |-> ahora]]
    ELSE tabla

\* all orders of a finite set
Ordenes(S) ==
    {s \in [1..Cardinality(S) -> S] : \A a, b \in 1..Cardinality(S) : a # b => s[a] # s[b]}

\* the orders of the rows S of tabla by fecha_scraping ascending: a row
\* with the least fecha_scraping first, then the others in such an order
RECURSIVE OrdenAsc(_, _)
OrdenAsc(tabla, S) ==
    IF S = {} THEN {<<>>}
    ELSE UNION {{<<u>> \o t : t \in OrdenAsc(tabla, S \ {u})} :
                   u \in {x \in S : \A y \in S :
                             tabla[x].fecha_scraping <= tabla[y].fecha_scraping}}

\* The query with ORDER BY fecha_scraping DESC: the most recently scraped
\* place first.
get_lugares_recientes_primero(tabla) ==
    {[k \in 1..Len(s) |-> [url |-> s[k], nombre |-> Nombre(s[k]),
                           last_count |-> tabla[s[k]].total_reviews_google]] :
        s \in {o \in Ordenes(DOMAIN tabla) :
                  \A a, b \in 1..Len(o) :
                      a < b => tabla[o[a]].fecha_scraping >= tabla[o[b]].fecha_scraping}}

\* get_lugares_para_monitoreo (lines 441-455): ORDER BY fecha_scraping ASC
\* NULLS FIRST; NULL is 0 here; rows with equal fecha_scraping come in any
\* order.  The set of lists the query can return.
get_lugares_para_monitoreo(tabla) ==
    {[k \in 1..Len(s) |-> [url |-> s[k], nombre |-> Nombre(s[k]),
                           last_count |-> tabla[s[k]].total_reviews_google]] :
        s \in OrdenAsc(tabla, DOMAIN tabla)}

(***************************************************************************)
(* monitor_reviews.procesar_lugar.                                         *)
(***************************************************************************)
\* What the page shows once the reviews tab is open: sorted newest first
\* when ordenar_por_recientes worked, in any order when it returned False
\* (its result is not read, line 122), cut where scroll_para_cargar_reviews
\* stopped (target, stagnation or time limit: any number of blocks).
Reordenes(src) ==
    {[k \in 1..Len(src) |-> src[o[k]]] : o \in Ordenes(1..Len(src))}

Paginas(src) ==
    {Take(p, k) : p \in {src} \cup Reordenes(src), k \in 0..Len(src)}

SinPagina == [cargada |-> FALSE, bloques |-> <<>>]

\* lines 104-156 for one reading c of the review count
ProcesarConConteo(lugar, ultimas, src, c) ==
    LET count_db == lugar.last_count
        total == IF c > 0 THEN c ELSE count_db
    IN  IF c > 0 /\ c = count_db
        THEN {[reviews |-> <<>>, estado |-> "SIN_CAMBIOS", upsert |-> TRUE,
               ok |-> ok, total |-> total, pagina |-> SinPagina] : ok \in BOOLEAN}
        ELSE {[reviews |-> <<>>, estado |-> "SIN_PESTANA", upsert |-> FALSE,
               ok |-> FALSE, total |-> total, pagina |-> SinPagina]}
             \cup
             {LET ex == extraer_reviews_de_pagina(p, lugar.url, lugar.nombre, ultimas)
              IN  [reviews |-> ex.reviews,
                   estado |-> IF ex.reviews # <<>> THEN "NUEVAS_REVIEWS"
                                                   ELSE "SIN_CAMBIOS",
                   upsert |-> TRUE, ok |-> ok, total |-> total,
                   pagina |-> [cargada |-> TRUE, bloques |-> p]] :
                 p \in Paginas(src), ok \in BOOLEAN}

\* procesar_lugar: the set of results it can return for a place whose page
\* holds src.  A result is the returned pair (reviews, estado) with what the
\* call did to the database: upsert says that upsert_lugar was called with
\* total, ok that it succeeded.  An exception anywhere before upsert_lugar
\* (navigation, parsing) gives ([], 'ERROR') (lines 158-160).
\* detectar_total_reviews gives the displayed total or 0 (lines 175-181).
procesar_lugar(lugar, ultimas, src) ==
    {[reviews |-> <<>>, estado |-> "ERROR", upsert |-> FALSE, ok |-> FALSE,
      total |-> 0, pagina |-> SinPagina]}
    \cup ProcesarConConteo(lugar, ultimas, src, Len(src))
    \cup ProcesarConConteo(lugar, ultimas, src, 0)

(***************************************************************************)
(* monitor_reviews.run_monitor.                                            *)
(***************************************************************************)
\* The check with ">" where the code has ">=".
TiempoAgotadoEstricto(elapsed) == elapsed > MAX_RUNTIME_SECONDS

\* line 212
TiempoAgotado(elapsed) == elapsed >= MAX_RUNTIME_SECONDS

\* The signal only for a run that processed nothing.
QuedanSinProcesar == timed_out /\ procesados = 0

\* line 320
QuedanPendientes == timed_out /\ procesados < Len(lista)

\* line 285
RESTART_EVERY == 50

\* No preventive restart.
ReinicioNunca(k) == FALSE

\* line 285: the preventive restart is due after place k
ReinicioPeriodico(k) == k % RESTART_EVERY = 0

\* A new driver with the old one left running.
ReciclarSinQuit(vivos, crear_ok) == IF crear_ok THEN vivos + 1 ELSE vivos

\* lines 277-281 and 288-294: driver.quit() on the driver held (live: the
\* recycling is reached only from the loop body), then crear_driver(),
\* which returns a new live driver or raises.  The number of live Chrome
\* instances afterwards.
Reciclar(vivos, crear_ok) ==
    LET tras_quit == vivos - 1
    IN  IF crear_ok THEN tras_quit + 1 ELSE tras_quit

\* lines 251-253
EstadoDash(estado) ==
    IF estado = "ERROR" THEN "ERROR_TEMPORAL"
    ELSE IF estado = "SIN_PESTANA" THEN "SIN_OPINIONES"
    ELSE "EXITO"

\* The calls of the loop body that can raise into the except of line 269
\* (log_review_history, insertar_reviews_batch and log_scraping_event end
\* in "finally: cursor.close()", which raises when conn.cursor() did).
Fallas == {"ninguna", "history", "insert", "log"}

Exitoso(estado) == estado \in {"SIN_CAMBIOS", "NUEVAS_REVIEWS"}

SinVisita == [url |-> <<>>, estado |-> "NINGUNO", excepcion |-> FALSE,
              fecha_antes |-> 0, filas_antes |-> 0, reviews |-> <<>>,
              hora |-> 0, misma |-> FALSE, commit |-> FALSE]

NoVista == [visto |-> FALSE, fuente |-> <<>>, pagina |-> SinPagina]

CuentaInicial(U) ==
    [runs |-> 0, v |-> 0, mismo_v |-> TRUE, limpio |-> TRUE,
     por_presupuesto |-> TRUE,
     visitas |-> [u \in U |-> 0],
     actual |-> [u \in U |-> "NO"], prev |-> [u \in U |-> "NO"],
     prev_timed_out |-> FALSE]

\* The state after the tables exist and before the first run: every place
\* has its row (written by the discovery scraper), with a NULL or an old
\* fecha_scraping; no review is stored; the pages show nothing yet.
\* scraping_logs is only ever inserted into: the rows of earlier runs are
\* out of the monitor's reach and are not kept.
Reposo(U) ==
    /\ lugares = [u \in U |-> [total_reviews_google |-> 0,
                                fecha_scraping |-> FechaInicial(u)]]
    /\ reviews = <<>>
    /\ indice_unico \in Indices(U)
    /\ historial = [u \in U |-> 0]
    /\ scraping_logs = <<>>
    /\ fuente = [u \in U |-> <<>>]
    /\ reloj = 2
    /\ pc = "inactivo"
    /\ lista = <<>>
    /\ i = 1
    /\ tiempo = 0
    /\ procesados = 0 /\ errores_consecutivos = 0 /\ timed_out = FALSE
    /\ driver = "ninguno"
    /\ sesion = [vivos |-> 0, servidos |-> 0]
    /\ senal = 0
    /\ visita = SinVisita
    /\ vista = [u \in U |-> NoVista]
    /\ cuenta = CuentaInicial(U)

\* lugares_validados.csv, the input of the review scraper: the links in
\* file order
LugaresValidados == <<URL3, URL4>>

\* the review scraper before its first run: estado_reviews.csv is absent
ReposoScraper ==
    /\ estado_csv = [k \in 1..Len(LugaresValidados) |-> ""]
    /\ pendientes = <<>>
    /\ pcs = "inactivo"
    /\ paso = 1

\* a place without a summary: resumen_reviews is NULL.  A summary is
\* [largo, insuficiente, version]: the length of its text, whether the text
\* holds "insuficiente información", and the date it was written.
SinResumen == [largo |-> 0, insuficiente |-> FALSE, version |-> 0]

\* the places of the summaries' pass, in the order get_lugares_para_embedding
\* hands them over
LugaresEmb == <<Nombre(URL1), Nombre(URL2)>>

SinPase ==
    [pc |-> "inactivo", lugares |-> <<>>, k |-> 1, lugares_a_actualizar |-> <<>>,
     nuevos_resumenes |-> <<>>, visto |-> <<>>, habia |-> {}]

\* before any summary was written
ReposoRegen ==
    /\ lugares_emb = [k \in 1..Len(LugaresEmb) |->
                         [nombre |-> LugaresEmb[k], resumen_reviews |-> SinResumen,
                          embedding_updated_at |-> 0]]
    /\ reviews_lugar = [k \in 1..Len(LugaresEmb) |-> <<>>]
    /\ vectores = [k \in 1..Len(LugaresEmb) |-> {}]
    /\ pase = SinPase
    /\ hoy = 1

\* scroll_para_cargar_reviews not called
SinScroll ==
    [pc |-> "inactivo", target |-> 0, tiempo_limite_segundos |-> 0,
     ultimo_conteo |-> 0, tiempo_estancado |-> 0, transcurrido |-> 0,
     cargados |-> 0, chequeos |-> 0, leido |-> 0, al_chequear |-> 0, sin_cambio |-> 0]

\* no pass of the summaries, no scroll, and reviews_neuquen.csv absent
ReposoOtros ==
    /\ ReposoRegen
    /\ scroll = SinScroll
    /\ reviews_csv = <<>>

SinEntrada == [bloques |-> <<>>, ultimas |-> <<>>]
SinSalida == [hecha |-> FALSE, reviews |-> <<>>, early_stopped |-> FALSE]

InitCon(U) ==
    /\ Reposo(U)
    /\ ReposoScraper
    /\ ReposoOtros
    /\ entrada = SinEntrada
    /\ salida = SinSalida

Init == InitCon({URL2, URL3, URL4})

InitCuatro == InitCon({URL2, URL3, URL4, URL5})

InitLugar == InitCon({URL1})

InitLargo == InitCon(UrlsLargo)

\* The source gains a review (newest first).  The page is read in one
\* step of the loop body, so a review published while a body runs is the
\* same as one published just before or just after it.
PublicarReview ==
    /\ pc \in {"inactivo", "verificar"}
    /\ \E u \in Urls :
          /\ Len(fuente[u]) < Len(Universo(u))
          /\ fuente' = [fuente EXCEPT ![u] = <<Universo(u)[Len(@) + 1]>> \o @]
    /\ UNCHANGED <<dbVars, reloj, runVars, obsVars, funVars, scraperVars, otrosVars>>

\* run_monitor, lines 163-206: the list is read, the driver created, the
\* counters zeroed.  (When crear_driver raises the function returns with
\* nothing changed.)
IniciarRun ==
    /\ pc = "inactivo"
    /\ reloj < RelojTope(Urls)
    /\ \E l \in get_lugares_para_monitoreo(lugares) :
          /\ l # <<>>
          /\ lista' = l
    /\ driver' = "vivo"
    /\ sesion' = [vivos |-> sesion.vivos + 1, servidos |-> 0]
    /\ pc' = "verificar"
    /\ i' = 1
    /\ tiempo' = 0
    /\ procesados' = 0 /\ errores_consecutivos' = 0 /\ timed_out' = FALSE
    /\ senal' = 0
    /\ scraping_logs' = <<>>
    /\ cuenta' = [cuenta EXCEPT !.actual = [u \in Urls |-> "NO"]]
    /\ UNCHANGED <<lugares, reviews, indice_unico, historial, fuente, reloj,
                   visita, vista, funVars, scraperVars, otrosVars>>

\* lines 209-215: the for header and the time check before a place
VerificarTiempo ==
    /\ pc = "verificar"
    /\ IF i > Len(lista)
       THEN pc' = "final" /\ UNCHANGED timed_out
       ELSE IF TiempoAgotado(tiempo)
            THEN pc' = "final" /\ timed_out' = TRUE
            ELSE pc' = "cuerpo" /\ UNCHANGED timed_out
    /\ UNCHANGED <<dbVars, fuente, reloj, lista, i, tiempo, procesados,
                   errores_consecutivos, driver, sesion, senal, obsVars,
                   funVars, scraperVars, otrosVars>>

\* This visit is shown what the last successful visit was shown: the
\* source holds the same reviews and, when this visit loads the page, it
\* loads the same blocks in the same order as the page last loaded.
MismaFuente(url, r) ==
    /\ vista[url].visto
    /\ vista[url].fuente = fuente[url]
    /\ r.pagina.cargada => vista[url].pagina = r.pagina

\* lines 217-294: the loop body for lista[i].  The counters con_cambios,
\* total_nuevas_reviews and errores are written here and read only by the
\* summary log lines of 311-316; they are not part of the state.  A row
\* of scraping_logs is kept as its url and estado.  r is what
\* procesar_lugar returned and did, falla the call of the body that raised (if any), d the
\* seconds the body took, crear_ok whether the crear_driver() of line 281
\* succeeds, crear_ok50 whether the one of line 294 does.
CuerpoCon(r, falla, d, crear_ok, crear_ok50) ==
    LET lugar == lista[i]
        url == lugar.url
        ultimas == get_ultimas_N_reviews_restaurante(reviews, lugar.nombre, N_ULTIMAS)
        lug1 == IF r.upsert THEN upsert_lugar(lugares, url, r.total, reloj, r.ok)
                            ELSE lugares
        count_actual == lugar.last_count + Len(r.reviews)
        inserta == r.estado = "NUEVAS_REVIEWS" /\ r.reviews # <<>>
        exc == \/ falla = "history"
               \/ falla = "insert" /\ inserta
               \/ falla = "log"
        ins == IF inserta /\ falla \notin {"history", "insert"}
               THEN insertar_reviews_batch(reviews, r.reviews, indice_unico, TRUE)
               ELSE [tabla |-> reviews, insertadas |-> 0, duplicadas |-> 0]
        ec1 == IF exc THEN errores_consecutivos + 1 ELSE 0
        reinicio3 == exc /\ ec1 >= 3
        aborta3 == reinicio3 /\ ~crear_ok
        reinicio50 == ~aborta3 /\ ReinicioPeriodico(i)
        aborta == aborta3 \/ (reinicio50 /\ ~crear_ok50)
        vivos3 == IF reinicio3 THEN Reciclar(sesion.vivos, crear_ok)
                               ELSE sesion.vivos
        vivos50 == IF reinicio50 THEN Reciclar(vivos3, crear_ok50) ELSE vivos3
        exito == Exitoso(r.estado) /\ ~exc
    IN  /\ Len(ins.tabla) <= MaxFilas
        /\ lugares' = lug1
        /\ historial' = IF falla = "history" THEN historial
                        ELSE [historial EXCEPT ![url] = count_actual]
        /\ reviews' = ins.tabla
        /\ scraping_logs' =
               IF exc THEN scraping_logs
               ELSE Append(scraping_logs,
                           [url |-> url, estado |-> EstadoDash(r.estado)])
        /\ procesados' = IF exc THEN procesados ELSE procesados + 1
        /\ errores_consecutivos' = IF reinicio3 /\ crear_ok THEN 0 ELSE ec1
        /\ driver' = IF aborta THEN "cerrado" ELSE "vivo"
        /\ sesion' = [vivos |-> vivos50,
                      servidos |-> IF \/ reinicio3 /\ crear_ok
                                      \/ reinicio50 /\ crear_ok50
                                   THEN 0 ELSE sesion.servidos + 1]
        /\ pc' = IF aborta THEN "final" ELSE "verificar"
        /\ i' = IF aborta THEN i ELSE i + 1
        /\ tiempo' = tiempo + d
        /\ reloj' = reloj + 1
        /\ visita' = [url |-> url, estado |-> r.estado, excepcion |-> exc,
                      fecha_antes |-> lugares[url].fecha_scraping,
                      filas_antes |-> Len(reviews), reviews |-> r.reviews,
                      hora |-> reloj,
                      misma |-> MismaFuente(url, r), commit |-> r.upsert /\ r.ok]
        /\ vista' = IF exito
                    THEN [vista EXCEPT ![url] =
                            [visto |-> TRUE, fuente |-> fuente[url],
                             pagina |-> IF r.pagina.cargada THEN r.pagina
                                        ELSE IF @.visto /\ @.fuente = fuente[url]
                                             THEN @.pagina ELSE SinPagina]]
                    ELSE vista
        /\ cuenta' = [cuenta EXCEPT
                        !.visitas[url] = @ + 1,
                        !.limpio = @ /\ r.upsert /\ r.ok,
                        !.actual[url] = IF exc \/ r.estado = "ERROR" THEN "ERROR"
                                        ELSE IF Exitoso(r.estado) THEN "OK"
                                        ELSE "SIN_PESTANA"]
        /\ UNCHANGED <<indice_unico, fuente, lista, timed_out, senal, funVars, scraperVars, otrosVars>>

ProcesarLugar ==
    /\ pc = "cuerpo"
    /\ reloj < RelojTope(Urls)
    /\ \E r \in procesar_lugar(lista[i],
                    get_ultimas_N_reviews_restaurante(reviews, lista[i].nombre, N_ULTIMAS),
                    fuente[lista[i].url]) :
       \E falla \in Fallas, d \in Duraciones(Urls) :
       \E crear_ok \in IF errores_consecutivos >= 2 THEN BOOLEAN ELSE {TRUE} :
       \E crear_ok50 \in IF ReinicioPeriodico(i) THEN BOOLEAN ELSE {TRUE} :
          /\ i < Cola(Urls) => (r.estado = "SIN_CAMBIOS" /\ r.ok /\ falla = "ninguna")
          /\ CuerpoCon(r, falla, d, crear_ok, crear_ok50)

\* line 221 raises: get_ultimas_N_reviews_restaurante is called outside
\* the try of the loop body, so its exception leaves the loop for the
\* finally block.  Nothing of the place has been done: it is not a visit.
FallaUltimas ==
    /\ pc = "cuerpo"
    /\ reloj < RelojTope(Urls)
    /\ i >= Cola(Urls)
    /\ pc' = "final"
    /\ reloj' = reloj + 1
    /\ UNCHANGED <<dbVars, fuente, lista, i, tiempo, procesados,
                   errores_consecutivos, timed_out, driver, sesion, senal,
                   obsVars, funVars, scraperVars, otrosVars>>

\* lines 296-322: the driver is quit, the connection closed, the summary
\* logged and the signal printed
Finalizar ==
    /\ pc = "final"
    /\ driver' = "cerrado"
    /\ sesion' = [vivos |-> IF driver = "vivo" THEN sesion.vivos - 1
                                               ELSE sesion.vivos,
                  servidos |-> 0]
    /\ senal' = IF QuedanPendientes THEN senal + 1 ELSE senal
    /\ pc' = "inactivo"
    /\ LET visitados == Cardinality({u \in Urls : cuenta.actual[u] # "NO"})
       IN  cuenta' = [cuenta EXCEPT
                        !.runs = @ + 1,
                        !.v = IF cuenta.runs = 0 THEN visitados ELSE @,
                        !.mismo_v = @ /\ (cuenta.runs = 0 \/ cuenta.v = visitados),
                        !.por_presupuesto = @ /\ timed_out,
                        !.prev = cuenta.actual,
                        !.prev_timed_out = timed_out]
    /\ UNCHANGED <<dbVars, fuente, reloj, lista, i, tiempo, procesados,
                   errores_consecutivos, timed_out, visita, vista, funVars, scraperVars, otrosVars>>

Next ==
    \/ PublicarReview
    \/ IniciarRun
    \/ VerificarTiempo
    \/ ProcesarLugar
    \/ FallaUltimas
    \/ Finalizar

\* runs over three places with one review each
Spec == Init /\ [][Next]_vars

\* runs over one place whose page shows up to three reviews
SpecLugar == InitLugar /\ [][Next]_vars

\* runs over four places that take 25/60 of the budget each
SpecCuatro == InitCuatro /\ [][Next]_vars

\* one run over MaxLargo places that take a hundredth of the budget each
SpecLargo == InitLargo /\ [][Next]_vars

(***************************************************************************)
(* opiniones-scraper.py, the review scraper, next to the monitor.  A row   *)
(* of lugares_validados.csv is known by its position k in the file;        *)
(* estado_csv[k] is the estado of its link in estado_reviews.csv.  The     *)
(* reviews the scraper appends to reviews_neuquen.csv are not kept.        *)
(***************************************************************************)
\* The filter that skips only the places scraped with success.
PendientesSoloExito(estados) ==
    LET RECURSIVE Desde(_)
        Desde(k) == IF k > Len(LugaresValidados) THEN <<>>
                    ELSE IF estados[k] \notin {"EXITO"}
                         THEN <<k>> \o Desde(k + 1)
                         ELSE Desde(k + 1)
    IN  Desde(1)

\* lines 599-605: the places whose estado is neither EXITO nor
\* SIN_OPINIONES, in file order
Pendientes(estados) ==
    LET RECURSIVE Desde(_)
        Desde(k) == IF k > Len(LugaresValidados) THEN <<>>
                    ELSE IF estados[k] \notin {"EXITO", "SIN_OPINIONES"}
                         THEN <<k>> \o Desde(k + 1)
                         ELSE Desde(k + 1)
    IN  Desde(1)

\* lines 575-612: the input and the estado file are read, the list built
IniciarScraper ==
    /\ pcs = "inactivo"
    /\ pendientes' = Pendientes(estado_csv)
    /\ pcs' = "bucle"
    /\ paso' = 1
    /\ UNCHANGED <<monitorVars, funVars, estado_csv, otrosVars>>

\* what procesar_restaurante can return with the estado file written
\* (lines 433-437, 556-569)
EstadosScraper == {"EXITO", "SIN_OPINIONES", "ERROR_TEMPORAL"}

\* lines 614-632, one pass of the loop.  The clock is read twice (lines
\* 618, 378); when either reading is over the limit the loop breaks and
\* the estado file is as before.  Otherwise procesar_restaurante writes
\* the estado of the place (actualizar_estado, lines 149-172) unless
\* crear_driver() raised (line 385), which ends the process.
ProcesarRestaurante ==
    /\ pcs = "bucle"
    /\ paso <= Len(pendientes)
    /\ \/ /\ \E estado \in EstadosScraper :
                estado_csv' = [estado_csv EXCEPT ![pendientes[paso]] = estado]
          /\ paso' = paso + 1
          /\ UNCHANGED pcs
       \/ /\ pcs' = "inactivo"
          /\ UNCHANGED <<estado_csv, paso>>
    /\ UNCHANGED <<monitorVars, funVars, pendientes, otrosVars>>

\* lines 634-644: the list is exhausted, the summary logged
TerminarScraper ==
    /\ pcs = "bucle"
    /\ paso > Len(pendientes)
    /\ pcs' = "inactivo"
    /\ UNCHANGED <<monitorVars, funVars, estado_csv, pendientes, paso, otrosVars>>

NextAmbos ==
    \/ IniciarRun
    \/ VerificarTiempo
    \/ ProcesarLugar
    \/ FallaUltimas
    \/ Finalizar
    \/ IniciarScraper
    \/ ProcesarRestaurante
    \/ TerminarScraper

InitAmbos == InitCon({URL3})

\* the monitor over one place and the review scraper over the places of
\* lugares_validados.csv
SpecAmbos == InitAmbos /\ [][NextAmbos]_vars

(***************************************************************************)
(* extraer_reviews_de_pagina applied on its own: a page of up to MaxPagina *)
(* blocks and a list of up to N_ULTIMAS stored entries.                    *)
(***************************************************************************)
MaxPagina == 4

Hace == <<"h", "a", "c", "e">>

\* Five reviews A..E.  E's author and text carry capitals, blanks at the
\* ends and a run of blanks; D is by E's author and its text begins with
\* E's text.
ItemA == Bloque(<<"a", "n", "a">>, <<"a", "b">>, Hace)
ItemB == Bloque(<<"b", "e", "n">>, <<"a", "b">>, Hace)
ItemC == Bloque(<<"a", "n", "a">>, <<"b", "a">>, Hace)
ItemD == Bloque(<<"n", "e", "a">>, <<"a", " ", "b", "a">>, Hace)
ItemE == Bloque(<<" ", "N", "e", "a">>, <<"A", " ", " ", "b", " ">>, Hace)

Items == {ItemA, ItemB, ItemC, ItemD, ItemE}

\* The entry of ultimas_reviews_db for a stored review: autor and
\* texto_inicio in the form the early-stop check compares against
\* (scraping_utils.py lines 304-305).
EntradaDe(bloque) ==
    [autor |-> LowerStr(Strip(Strip(bloque.autor))),
     texto_inicio |-> Collapse(LowerStr(Take(Strip(bloque.texto), NORM_VENTANA)))]

\* sequences without repetition of length lo..hi over S
SeqsDe(S, lo, hi) ==
    UNION {{q \in [1..n -> S] : \A a, b \in 1..n : a # b => q[a] # q[b]} : n \in lo..hi}

\* the page I1..I10 of ten reviews by ten authors
Diez == [k \in 1..10 |-> Bloque(<<"i", Digitos[k]>>, <<"t", Digitos[k]>>, Hace)]

EntradaDiez == [bloques |-> Diez, ultimas |-> <<EntradaDe(Diez[3]), EntradaDe(Diez[4])>>]

EntradaCDAE == [bloques |-> <<ItemC, ItemD, ItemA, ItemE>>,
                ultimas |-> <<EntradaDe(ItemA), EntradaDe(ItemB)>>]

EntradasExtraer ==
    {[bloques |-> b, ultimas |-> [k \in 1..Len(u) |-> EntradaDe(u[k])]] :
        b \in SeqsDe(Items, 0, MaxPagina), u \in SeqsDe(Items, 0, N_ULTIMAS)}
    \cup {EntradaDiez}

InitExtraer ==
    /\ Reposo({URL1})
    /\ ReposoScraper
    /\ ReposoOtros
    /\ entrada \in EntradasExtraer
    /\ salida = SinSalida

AplicarExtraer ==
    /\ ~salida.hecha
    /\ LET ex == extraer_reviews_de_pagina(entrada.bloques, URL1, Nombre(URL1),
                                           entrada.ultimas)
       IN  salida' = [hecha |-> TRUE, reviews |-> ex.reviews,
                      early_stopped |-> ex.early_stopped]
    /\ UNCHANGED <<monitorVars, entrada, scraperVars, otrosVars>>

NextExtraer == AplicarExtraer

SpecExtraer == InitExtraer /\ [][NextExtraer]_vars

(***************************************************************************)
(* Properties.                                                             *)
(***************************************************************************)

\* C1: after any sequence of monitor visits to one place, no two stored
\* reviews of the place have the same fingerprint (review_id).
C1_FingerprintUnico ==
    \A a, b \in 1..Len(reviews) :
        (a # b /\ reviews[a].restaurante = reviews[b].restaurante)
            => reviews[a].review_id # reviews[b].review_id

\* C2: a visit that is shown exactly what the place's previous successful
\* visit was shown adds no row to the reviews table, whichever path it took.
C2_Idempotencia ==
    visita.misma => Len(reviews) = visita.filas_antes

\* The blocks of the page that match a stored entry (the comparison of
\* lines 304-309 on the stripped author and text of the block).
Coincidentes(bloques, ultimas) ==
    {k \in 1..Len(bloques) :
        \E j \in 1..Len(ultimas) :
            CoincideConDb(Strip(bloques[k].autor), Strip(bloques[k].texto), ultimas[j])}

\* the blocks 1..n of the page as rows
FilasHasta(bloques, n) ==
    [k \in 1..n |-> FilaDeBloque(bloques[k], URL1, Nombre(URL1))]

\* C3: with a non-empty list of stored entries, extraer_reviews_de_pagina
\* returns exactly the blocks before the first block that matches a stored
\* entry, in page order, with early_stopped true; when no block matches it
\* returns every block with early_stopped false.  I1..I10 with {I3, I4}
\* stored gives [I1, I2]; [C, D, A, E] with {A, B} stored gives [C, D].
C3_EarlyStop ==
    (salida.hecha /\ entrada.ultimas # <<>>) =>
        LET m == Coincidentes(entrada.bloques, entrada.ultimas)
        IN  /\ IF m = {}
               THEN /\ ~salida.early_stopped
                    /\ salida.reviews = FilasHasta(entrada.bloques, Len(entrada.bloques))
               ELSE LET primero == CHOOSE k \in m : \A j \in m : k <= j
                    IN  /\ salida.early_stopped
                        /\ salida.reviews = FilasHasta(entrada.bloques, primero - 1)
            /\ entrada = EntradaDiez =>
                   /\ salida.early_stopped
                   /\ salida.reviews = FilasHasta(Diez, 2)
            /\ entrada = EntradaCDAE =>
                   /\ salida.early_stopped
                   /\ salida.reviews = FilasHasta(<<ItemC, ItemD>>, 2)

\* C3 witness: the call stopped at a block after the first one and
\* returned the blocks before it.
C3_Testigo ==
    /\ salida.hecha
    /\ entrada = EntradaCDAE
    /\ salida.early_stopped
    /\ Len(salida.reviews) = 2

\* C4: the reviews procesar_lugar returns for a place never include one
\* whose fingerprint is already stored for that place.
C4_SoloNuevas ==
    [][(pc = "cuerpo" /\ pc' # "cuerpo") =>
          \A k \in 1..Len(visita'.reviews) : \A j \in 1..Len(reviews) :
              ~(/\ reviews[j].restaurante = visita'.reviews[k].restaurante
                /\ reviews[j].review_id = visita'.reviews[k].review_id)]_vars

\* C5: a visit that ends in a transient error (procesar_lugar returned
\* 'ERROR', or the except branch of run_monitor was taken) leaves the
\* place's fecha_scraping as it was, and no step changes fecha_scraping of
\* a place other than the one being visited.
C5_ErrorNoAvanza ==
    [][/\ (pc = "cuerpo" /\ pc' # "cuerpo"
           /\ (visita'.estado = "ERROR" \/ visita'.excepcion))
          => lugares'[visita'.url].fecha_scraping = lugares[visita'.url].fecha_scraping
       /\ \A u \in Urls :
             (pc # "cuerpo" \/ u # lista[i].url)
                 => lugares'[u].fecha_scraping = lugares[u].fecha_scraping]_vars

\* C6: after a visit that ended in SIN_CAMBIOS, NUEVAS_REVIEWS or
\* SIN_PESTANA the place's fecha_scraping is the time of that visit.
C6_ExitoAvanza ==
    (visita.estado \in {"SIN_CAMBIOS", "NUEVAS_REVIEWS", "SIN_PESTANA"} /\ ~visita.excepcion)
        => lugares[visita.url].fecha_scraping = visita.hora

\* N runs stopped by the budget after v visits each
RunsIguales ==
    /\ pc = "inactivo"
    /\ cuenta.runs >= 1
    /\ cuenta.mismo_v
    /\ cuenta.por_presupuesto

\* every place has floor(N * v / total_places) visits or more
CuotaCumplida ==
    \A u \in Urls :
        cuenta.visitas[u] >= (cuenta.runs * cuenta.v) \div Cardinality(Urls)

C8_OrdenReanudacion ==
    (pc = "verificar" /\ i = 1 /\ tiempo = 0 /\ cuenta.prev_timed_out) =>
        \A a, b \in 1..Len(lista) :
            (cuenta.prev[lista[a].url] = "OK"
             /\ cuenta.prev[lista[b].url] \in {"NO", "ERROR"}) => b < a

\* C9: a place is being processed only after a check that found
\* elapsed < MAX_RUNTIME_SECONDS; once a check has found
\* elapsed >= MAX_RUNTIME_SECONDS the run starts no other place; a place
\* that was started ended in a returned state even when it ran past the
\* budget.
C9_Presupuesto ==
    /\ pc = "cuerpo" => (tiempo < MAX_RUNTIME_SECONDS /\ ~timed_out)
    /\ timed_out => (/\ pc \in {"final", "inactivo"}
                     /\ tiempo >= MAX_RUNTIME_SECONDS
                     /\ i <= Len(lista))
    /\ (pc \in {"verificar", "final"} /\ i > 1) =>
           visita.estado \in {"SIN_CAMBIOS", "NUEVAS_REVIEWS", "SIN_PESTANA", "ERROR"}

\* C9 witness: the second place of a run ran past the budget and ended in
\* a returned state, and the check before the third place stopped the run.
C9_Testigo ==
    /\ timed_out /\ pc = "final"
    /\ i = 3
    /\ tiempo > MAX_RUNTIME_SECONDS
    /\ visita.url = lista[2].url
    /\ visita.estado = "SIN_CAMBIOS"

\* C10 as stated: with a budget of 60 and places of 25 each, the third
\* place is not started after two places (50 elapsed).
C10_DeclinaTercero ==
    ~(pc = "cuerpo" /\ i = 3 /\ tiempo = 2 * VEINTICINCO)

\* C10 amended: with a budget of 60 and places of 25 each the first three
\* places are started (50 < 60 at the third check); the check before the
\* fourth place (75 elapsed) stops the run, and the run then prints
\* CONTINUE_NEEDED once.
C10_DeclinaCuarto ==
    /\ (pc = "verificar" /\ i <= 3) => tiempo < MAX_RUNTIME_SECONDS
    /\ pc = "cuerpo" => i <= 3
    /\ timed_out => (/\ i = 4
                     /\ tiempo = 3 * VEINTICINCO
                     /\ pc \in {"final", "inactivo"})
    /\ (timed_out /\ pc = "inactivo") => senal = 1

\* C10 witness: the third place was visited, the fourth declined and the
\* signal printed.
C10_Testigo ==
    /\ pc = "inactivo" /\ timed_out
    /\ i = 4 /\ Len(lista) = 4
    /\ visita.url = lista[3].url
    /\ senal = 1

\* C11: CONTINUE_NEEDED is printed at most once per run and only when the
\* run ends, and it is printed exactly when a place of the run's list was
\* not visited in the run.
C11_Senal ==
    /\ senal <= 1
    /\ pc # "inactivo" => senal = 0
    /\ (pc = "inactivo" /\ cuenta.runs >= 1) =>
          (senal = 1 <=> \E k \in 1..Len(lista) : cuenta.actual[lista[k].url] = "NO")

\* C12: when the last three places visited in the run all ended in a
\* transient error (procesar_lugar returned 'ERROR' or the body raised),
\* the driver has been recycled within those three visits: before the next
\* place starts, the driver held has served fewer than three places.
C12_ReciclajePorErrores ==
    (/\ pc = "verificar"
     /\ i >= 4
     /\ \A k \in (i - 3)..(i - 1) : cuenta.actual[lista[k].url] = "ERROR")
        => sesion.servidos <= 2

\* C13: whatever is raised while a place is handled, the loop goes on: a
\* step that leaves the loop body with the driver in hand returns to the
\* loop header with the next index, where the next place is started when
\* budget remains.
C13_Aislamiento ==
    [][(pc = "cuerpo" /\ driver' = "vivo")
          => (pc' = "verificar" /\ i' = i + 1)]_vars

\* the positions of lugares_validados.csv that are in the scraper's list
EnPendientes(lst) == {lst[k] : k \in 1..Len(lst)}

\* the urls of a list of the monitor
EnLista(lst) == {lst[k].url : k \in 1..Len(lst)}

\* C14 as stated: every run of the monitor has every place in its list,
\* and every run of the review scraper has in its list every place whose
\* last visit ended in EXITO or SIN_OPINIONES.
C14_SiempreProgramable ==
    [][/\ (pc = "inactivo" /\ pc' # "inactivo") => EnLista(lista') = Urls
       /\ (pcs = "inactivo" /\ pcs' = "bucle") =>
             \A k \in 1..Len(LugaresValidados) :
                 estado_csv[k] \in {"EXITO", "SIN_OPINIONES"}
                     => k \in EnPendientes(pendientes')]_vars

\* C14 amended: every run of the monitor has every place in its list,
\* whatever its visits ended in; a run of the review scraper has in its
\* list exactly the places whose estado is neither EXITO nor SIN_OPINIONES.
C14_ProgramableEnMonitor ==
    [][/\ (pc = "inactivo" /\ pc' # "inactivo") => EnLista(lista') = Urls
       /\ (pcs = "inactivo" /\ pcs' = "bucle") =>
             \A k \in 1..Len(LugaresValidados) :
                 k \in EnPendientes(pendientes')
                     <=> estado_csv[k] \notin {"EXITO", "SIN_OPINIONES"}]_vars

\* a run of the monitor has started with the place its previous run
\* visited with success, and a run of the scraper has started without the
\* place it scraped with success and with the one that ended in error
C14_Testigo ==
    /\ pc = "verificar" /\ i = 1
    /\ cuenta.prev[URL3] = "OK"
    /\ URL3 \in EnLista(lista)
    /\ pcs = "bucle" /\ paso = 1
    /\ estado_csv[1] = "EXITO" /\ estado_csv[2] = "ERROR_TEMPORAL"
    /\ pendientes = <<2>>

\* C15: no driver is handed more than 50 places, and when the loop comes
\* back to its header after the 50th, 100th, ... place of the run, the
\* driver held is a new one that has served no place yet and is the only
\* live one.
C15_ReinicioPeriodico ==
    /\ sesion.servidos <= RESTART_EVERY
    /\ (pc = "verificar" /\ i > 1 /\ (i - 1) % RESTART_EVERY = 0)
          => (sesion.servidos = 0 /\ sesion.vivos = 1 /\ driver = "vivo")

\* the first 50 places of the run were visited without any error and the
\* loop is about to start the 51st with a new driver
C15_Testigo ==
    /\ pc = "verificar"
    /\ i = RESTART_EVERY + 1
    /\ i <= Len(lista)
    /\ \A k \in 1..RESTART_EVERY : cuenta.actual[lista[k].url] = "OK"
    /\ errores_consecutivos = 0
    /\ sesion = [vivos |-> 1, servidos |-> 0]

Equis(n) == [k \in 1..n |-> "x"]

\* texts around the 50-character cut: 50 letters, the same after two
\* blanks, 49 letters and a blank with or without more text, and short
\* texts with capitals and blanks
TextosHuella ==
    {Equis(ID_PREFIJO), <<" ", " ">> \o Equis(ID_PREFIJO),
     Equis(ID_PREFIJO - 1) \o <<" ", "y">>, Equis(ID_PREFIJO - 1),
     <<"A", "b">>, <<" ", "a", "b", " ">>, <<>>, NULO}

AutoresHuella ==
    {<<"a", "n", "a">>, <<"A", "n", "a", " ">>, <<"a", "|", "b">>, <<"a">>, NULO}

FechasHuella == {Hace, <<"b", "|">> \o Hace, NULO}

ArgsHuella == [url : {URL1}, autor : AutoresHuella, fecha : FechasHuella,
               texto : TextosHuella]

InitHuella ==
    /\ Reposo({URL1})
    /\ ReposoScraper
    /\ ReposoOtros
    /\ entrada \in [x : ArgsHuella, y : ArgsHuella]
    /\ salida = [hecha |-> FALSE, x |-> <<>>, y |-> <<>>]

AplicarHuella ==
    /\ ~salida.hecha
    /\ salida' = [hecha |-> TRUE,
                  x |-> generar_id_review(entrada.x.url, entrada.x.autor,
                                          entrada.x.fecha, entrada.x.texto),
                  y |-> generar_id_review(entrada.y.url, entrada.y.autor,
                                          entrada.y.fecha, entrada.y.texto)]
    /\ UNCHANGED <<monitorVars, entrada, scraperVars, otrosVars>>

NextHuella == AplicarHuella

SpecHuella == InitHuella /\ [][NextHuella]_vars

\* the normalized tuple as the claim words it: each field lower-cased and
\* trimmed (a missing field is the empty string), the text then cut to its
\* first 50 characters
TuplaNormalizada(a) ==
    <<a.url, Strip(LowerStr(OVacio(a.autor))), Strip(LowerStr(OVacio(a.fecha))),
      Take(Strip(LowerStr(OVacio(a.texto))), ID_PREFIJO)>>

\* C17: two calls whose arguments have the same normalized tuple (same
\* url; author, date and text equal after lower-casing, trimming and
\* cutting the text to 50 characters) return the same fingerprint.
C17_SoloTuplaNormalizada ==
    (salida.hecha /\ TuplaNormalizada(entrada.x) = TuplaNormalizada(entrada.y))
        => salida.x = salida.y

\* the tuple that is joined into the pre-hash string: the text cut to 50
\* characters, then each field lower-cased and trimmed
TuplaUnida(a) ==
    <<a.url, Strip(LowerStr(OVacio(a.autor))), Strip(LowerStr(OVacio(a.fecha))),
      Strip(LowerStr(Take(OVacio(a.texto), ID_PREFIJO)))>>

\* C18: two argument tuples whose normalized tuples (url, author, date
\* text, text prefix) differ in a component are given different pre-hash
\* strings.
C18_Sensibilidad ==
    (salida.hecha /\ TuplaUnida(entrada.x) # TuplaUnida(entrada.y))
        => salida.x # salida.y

(***************************************************************************)
(* deepseek_utils.muestreo_estrategico applied on its own.  A review is    *)
(* [largo, rating]: the length of its texto (0: no texto) and its rating.  *)
(* The dicts of the list are distinct objects (the caller builds the list  *)
(* from rows, lines 127-132): id(review) is the position in the list, and  *)
(* the result is the sequence of the positions returned.                   *)
(***************************************************************************)
\* lines 96, 101, 107: reviews[:20], por_largo[:10], extremos[:10]
RECIENTES == 20
LARGAS == 10
EXTREMOS == 10
\* line 66: total=50
TOTAL == 50

Min(a, b) == IF a <= b THEN a ELSE b

Elementos(s) == {s[k] : k \in 1..Len(s)}

\* the elements of a set of numbers in ascending order
Ascendente(S) ==
    [r \in 1..Cardinality(S) |->
        CHOOSE x \in S : Cardinality({y \in S : y < x}) = r - 1]

\* the subsets of S with k elements, grown one element at a time
RECURSIVE Crecer(_, _)
Crecer(S, k) ==
    IF k = 0 THEN {{}}
    ELSE UNION {{c \cup {x} : x \in S \ c} : c \in Crecer(S, k - 1)}

\* the subsets of S with k elements (those that leave out |S| - k, when
\* that is fewer)
Combinaciones(S, k) ==
    IF 2 * k > Cardinality(S)
    THEN {S \ d : d \in Crecer(S, Cardinality(S) - k)}
    ELSE Crecer(S, k)

\* agregar without the test on seleccionadas
AgregarSinControl(acc, k, resenas) ==
    IF resenas[k].largo > 0 THEN Append(acc, k) ELSE acc

\* agregar, lines 90-93: the review is appended when it was not selected
\* before and has a texto
Agregar(acc, k, resenas) ==
    IF k \notin Elementos(acc) /\ resenas[k].largo > 0 THEN Append(acc, k) ELSE acc

\* for r in ks: agregar(r).  ks is a slice of the list or of a
\* rearrangement of it, so no review comes twice in ks: the reviews of ks
\* that agregar appends are those it would append to acc.
AgregarTodos(acc, ks, resenas) ==
    acc \o SelectSeq(ks, LAMBDA k : Agregar(acc, k, resenas) # acc)

\* line 100: sorted(reviews, key=len(texto), reverse=True), a stable sort:
\* longer first, equal lengths in list order
PorLargo(resenas) ==
    LET n == Len(resenas)
        Antes(a, b) == \/ resenas[a].largo > resenas[b].largo
                       \/ resenas[a].largo = resenas[b].largo /\ a < b
    IN  [r \in 1..n |-> CHOOSE a \in 1..n :
                            Cardinality({b \in 1..n : Antes(b, a)}) = r - 1]

\* the whole list returned as it is
DirectoSinFiltro(resenas) == Ascendente(1..Len(resenas))

\* line 84: [r for r in reviews if r.get('texto')], the reviews with a
\* texto, in list order
Directo(resenas) ==
    Ascendente({k \in 1..Len(resenas) : resenas[k].largo > 0})

\* muestreo_estrategico, lines 83-117: the set of the lists it can return.
\* random.shuffle(extremos)[:10] is any 10 of the extremes, and the loop
\* over the shuffled restantes adds any reviews with texto among them
\* until total is reached; the order inside each of these two stages is
\* taken ascending.
muestreo_estrategico(resenas, total) ==
    LET n == Len(resenas)
    IN  IF n <= total
        THEN {Directo(resenas)}
        ELSE LET etapa1 == AgregarTodos(<<>>, Ascendente(1..Min(RECIENTES, n)), resenas)
                 etapa2 == AgregarTodos(etapa1, Take(PorLargo(resenas), LARGAS), resenas)
                 extremos == {k \in 1..n : resenas[k].rating \in {1, 2, 5}}
             IN  UNION
                 {LET etapa3 == AgregarTodos(etapa2, Ascendente(E), resenas)
                      restantes == {k \in 1..n : k \notin Elementos(etapa3)}
                      con_texto == {k \in restantes : resenas[k].largo > 0}
                      faltan == IF Len(etapa3) >= total THEN 0
                                ELSE Min(total - Len(etapa3), Cardinality(con_texto))
                  IN  {AgregarTodos(etapa3, Ascendente(F), resenas) :
                          F \in Combinaciones(con_texto, faltan)} :
                     E \in Combinaciones(extremos, Min(EXTREMOS, Cardinality(extremos)))}

\* Bounds of the sampler's inputs: the length of the short lists and of the
\* long ones
MaxCorta == 3
MaxMuestra == 53

\* the reviews a short list is made of
ClasesReview == [largo : {0, 1, 2}, rating : {1, 3}]

\* a long list: every 27th review without texto, every fifth with an
\* extreme rating, the texts growing longer or shorter along the list
ListaLarga(n, creciente) ==
    [k \in 1..n |-> [largo |-> IF k % 27 = 0 THEN 0
                               ELSE IF creciente THEN k ELSE n + 1 - k,
                     rating |-> IF k % 5 = 0 THEN 5 ELSE 3]]

EntradasMuestreo ==
    [reviews : UNION {[1..n -> ClasesReview] : n \in 0..MaxCorta}, total : {1, 2, TOTAL}]
    \cup [reviews : {ListaLarga(MaxMuestra, c) : c \in BOOLEAN}
                    \cup {ListaLarga(MaxMuestra - 1, TRUE), ListaLarga(TOTAL, TRUE)},
          total : {LARGAS, TOTAL}]

InitMuestreo ==
    /\ Reposo({URL1})
    /\ ReposoScraper
    /\ ReposoOtros
    /\ entrada \in EntradasMuestreo
    /\ salida = [hecha |-> FALSE, items |-> <<>>]

AplicarMuestreo ==
    /\ ~salida.hecha
    /\ \E items \in muestreo_estrategico(entrada.reviews, entrada.total) :
          salida' = [hecha |-> TRUE, items |-> items]
    /\ UNCHANGED <<monitorVars, entrada, scraperVars, otrosVars>>

NextMuestreo == AplicarMuestreo

SpecMuestreo == InitMuestreo /\ [][NextMuestreo]_vars

\* C19: whatever the list and whatever total, muestreo_estrategico returns
\* at most total reviews.
C19_CotaMuestreo ==
    salida.hecha => Len(salida.items) <= entrada.total

\* C20: the list returned holds no review twice (what an earlier stage
\* selected no later stage selects again), and every review returned is a
\* review of the input list.
C20_SinRepetidos ==
    salida.hecha =>
        /\ \A a, b \in 1..Len(salida.items) :
               a # b => salida.items[a] # salida.items[b]
        /\ \A a \in 1..Len(salida.items) :
               salida.items[a] \in 1..Len(entrada.reviews)

\* a long list whose longest texts are among its most recent reviews (the
\* second stage meets only reviews of the first) was sampled down to total
C20_Testigo ==
    /\ salida.hecha
    /\ Len(entrada.reviews) = MaxMuestra
    /\ entrada.reviews[1].largo > entrada.reviews[2].largo
    /\ entrada.total = TOTAL
    /\ Len(salida.items) = TOTAL

\* C21: when the list handed to muestreo_estrategico has at most total
\* reviews, what it returns is the reviews of the list that have a texto,
\* each once and in list order: nothing else is dropped and nothing added.
C21_PasoDirecto ==
    (salida.hecha /\ Len(entrada.reviews) <= entrada.total) =>
        salida.items = SelectSeq([k \in 1..Len(entrada.reviews) |-> k],
                                 LAMBDA k : entrada.reviews[k].largo > 0)

\* a list of exactly total reviews, one of them without texto, came back
\* one review shorter
C21_Testigo ==
    /\ salida.hecha
    /\ Len(entrada.reviews) = TOTAL
    /\ entrada.total = TOTAL
    /\ \E k \in 1..TOTAL : entrada.reviews[k].largo = 0
    /\ Len(salida.items) = TOTAL - 1

(***************************************************************************)
(* regenerate_embeddings.regenerate_incremental, the pass that refreshes   *)
(* the summaries and their embeddings.  A review is [fecha, crudo,         *)
(* limpio]: the date it was stored, the length of its texto stripped and   *)
(* the length of limpiar_texto(texto).  The functions of db_utils the pass *)
(* calls (get_lugares_para_embedding, get_reviews_nuevas_sin_embedding,    *)
(* get_todas_reviews_lugar, actualizar_resumen_lugar) are not in           *)
(* src/db_utils.py: they are modelled from their use and their names.      *)
(***************************************************************************)
\* regenerate_embeddings.py line 292: len(reviews_validas) < 20
UMBRAL_VALIDAS == 20
\* regenerate_embeddings.py line 288: len(limpiar_texto(str(r))) > 30
LARGO_LIMPIO == 30
\* deepseek_utils.py lines 130 and 191: len(str(t).strip()) > 20
LARGO_CRUDO == 20
\* deepseek_utils.py line 196: len(resumen_actual.strip()) < 10
RESUMEN_MINIMO == 10
\* regenerate_embeddings.py line 89: len(resumen.strip()) < 20
DOC_MINIMO == 20

\* Bound: the last date of the model
MaxHoy == 3

\* the reviews with a date after embedding_date
get_reviews_nuevas_sin_embedding(tabla, embedding_date) ==
    SelectSeq(tabla, LAMBDA r : r.fecha > embedding_date)

\* writes the summary of the row k and stamps the row with the date
actualizar_resumen_lugar(tabla, k, resumen, ahora) ==
    [tabla EXCEPT ![k].resumen_reviews = resumen, ![k].embedding_updated_at = ahora]

\* what _call_deepseek can do for detectar_info_nueva: raise, or return the
\* content of the answer
RespuestasApi ==
    {[falla |-> TRUE, content |-> <<>>]}
    \cup {[falla |-> FALSE, content |-> c] :
             c \in {<<"S", "I">>, <<"s", "i", ".">>, <<"S", "í">>, <<"N", "O">>}}

\* the threshold with 19 in the place of 20
PocasValidasMenos(reviews_validas) == Len(reviews_validas) < UMBRAL_VALIDAS - 1

\* regenerate_embeddings.py line 292
PocasValidas(reviews_validas) == Len(reviews_validas) < UMBRAL_VALIDAS

\* a failed call answered with False
detectar_sin_defecto(resumen_actual, textos, api) ==
    ~api.falla /\ StartsWith(api.content, <<"S", "I">>)

\* deepseek_utils.detectar_info_nueva, lines 179-219.  The summaries are
\* stored stripped (_call_deepseek, line 63), so len(resumen_actual.strip())
\* is largo.
detectar_info_nueva(resumen_actual, textos, api) ==
    LET textos_validos == SelectSeq(textos, LAMBDA t : t.crudo > LARGO_CRUDO)
        Upper(c) == CASE c = "s" -> "S" [] c = "i" -> "I" [] c = "í" -> "Í"
                      [] c = "n" -> "N" [] c = "o" -> "O" [] OTHER -> c
        respuesta_upper == [x \in DOMAIN api.content |-> Upper(api.content[x])]
    IN  IF textos_validos = <<>> THEN FALSE
        ELSE IF resumen_actual.largo = 0 \/ resumen_actual.largo < RESUMEN_MINIMO THEN TRUE
        ELSE IF api.falla THEN TRUE
        ELSE StartsWith(respuesta_upper, <<"S", "I">>)

\* deepseek_utils.generar_resumen_reviews, lines 120-176: the summaries it
\* can return for the reviews of a place.  "" when no review passes the
\* filter of line 130 or when the call fails; otherwise whatever the model
\* answers: a text too short for detectar_info_nueva, one too short for a
\* document, one that says "insuficiente información", or a full one.
generar_resumen_reviews(reviews_data, version) ==
    {SinResumen}
    \cup IF \E x \in 1..Len(reviews_data) : reviews_data[x].crudo > LARGO_CRUDO
         THEN {[largo |-> l, insuficiente |-> b, version |-> version] :
                  l \in {RESUMEN_MINIMO - 1, DOC_MINIMO - 1, 2 * DOC_MINIMO},
                  b \in BOOLEAN} \ {[largo |-> l, insuficiente |-> TRUE, version |-> version] :
                                       l \in {RESUMEN_MINIMO - 1, DOC_MINIMO - 1}}
         ELSE {}

\* create_document, lines 86-107: the document of a summary (known by the
\* summary's version), or none
create_document(resumen) ==
    IF resumen.largo = 0 \/ resumen.largo < DOC_MINIMO \/ resumen.insuficiente
    THEN {}
    ELSE {resumen.version}

\* the texts of the reviews that arrive: a text of
\* 31 characters that cleaning leaves alone, and one that cleaning takes
\* down to 30
ClasesTexto ==
    {[crudo |-> LARGO_LIMPIO + 1, limpio |-> LARGO_LIMPIO + 1],
     [crudo |-> LARGO_LIMPIO + 1, limpio |-> LARGO_LIMPIO]}

\* The first place has a summary of an earlier pass, full or short, and the
\* embedding of it when it is full; the second has none.
InitRegen ==
    /\ Reposo({URL1})
    /\ ReposoScraper
    /\ entrada = SinEntrada
    /\ salida = SinSalida
    /\ \E l \in {RESUMEN_MINIMO - 1, 2 * DOC_MINIMO} :
          LET resumen == [largo |-> l, insuficiente |-> FALSE, version |-> 1]
          IN  /\ lugares_emb =
                    [k \in 1..Len(LugaresEmb) |->
                        [nombre |-> LugaresEmb[k],
                         resumen_reviews |-> IF k = 1 THEN resumen ELSE SinResumen,
                         embedding_updated_at |-> IF k = 1 THEN 1 ELSE 0]]
              /\ vectores = [k \in 1..Len(LugaresEmb) |->
                                IF k = 1 THEN create_document(resumen) ELSE {}]
    /\ reviews_lugar = [k \in 1..Len(LugaresEmb) |-> <<>>]
    /\ pase = SinPase
    /\ hoy = 1
    /\ scroll = SinScroll
    /\ reviews_csv = <<>>

\* the monitor stores a lot of new reviews of a place, between two passes
\* (the places after the first get one review at a time)
LlegaLote ==
    /\ pase.pc = "inactivo"
    /\ hoy < MaxHoy
    /\ \E k \in 1..Len(LugaresEmb), n \in {1, UMBRAL_VALIDAS - 1, UMBRAL_VALIDAS}, c \in ClasesTexto :
          /\ k > 1 => (n = 1 /\ c.limpio > LARGO_LIMPIO)
          /\ reviews_lugar' = [reviews_lugar EXCEPT ![k] =
              @ \o [x \in 1..n |-> [fecha |-> hoy + 1, crudo |-> c.crudo,
                                    limpio |-> c.limpio]]]
    /\ hoy' = hoy + 1
    /\ UNCHANGED <<monitorVars, funVars, scraperVars, scroll, reviews_csv, lugares_emb, vectores, pase>>

\* lines 247-261
IniciarPase ==
    /\ pase.pc = "inactivo"
    /\ pase' = [pc |-> "bucle", lugares |-> lugares_emb, k |-> 1,
                lugares_a_actualizar |-> <<>>,
                nuevos_resumenes |-> [k \in 1..Len(lugares_emb) |-> SinResumen],
                visto |-> <<>>,
                habia |-> {k \in 1..Len(vectores) : vectores[k] # {}}]
    /\ UNCHANGED <<monitorVars, funVars, scraperVars, scroll, reviews_csv, lugares_emb, reviews_lugar,
                   vectores, hoy>>

\* one turn of the loop, lines 263-312.  visto keeps, for the place, what
\* the turn read and which collaborators it called.
EvaluarLugar ==
    /\ pase.pc = "bucle"
    /\ pase.k <= Len(pase.lugares)
    /\ LET lugar == pase.lugares[pase.k]
           resumen_actual == lugar.resumen_reviews
           todas == reviews_lugar[pase.k]
           reviews_nuevas ==
               get_reviews_nuevas_sin_embedding(todas, lugar.embedding_updated_at)
           reviews_validas ==
               SelectSeq(reviews_nuevas, LAMBDA r : r.limpio > LARGO_LIMPIO)
           sin_resumen == resumen_actual.largo = 0
           consulta == ~sin_resumen /\ reviews_nuevas # <<>> /\ ~PocasValidas(reviews_validas)
       IN  \E api \in IF consulta THEN RespuestasApi ELSE {[falla |-> FALSE, content |-> <<>>]} :
           LET veredicto == consulta /\ detectar_info_nueva(resumen_actual, reviews_validas, api)
               resume == (sin_resumen /\ todas # <<>>) \/ veredicto
               solo_fecha == ~sin_resumen /\ reviews_nuevas # <<>> /\ ~veredicto
           IN  \E resumen \in IF resume THEN generar_resumen_reviews(todas, hoy) ELSE {SinResumen} :
               /\ lugares_emb' =
                     IF solo_fecha
                     THEN actualizar_resumen_lugar(lugares_emb, pase.k, resumen_actual, hoy)
                     ELSE lugares_emb
               /\ pase' = [pase EXCEPT
                     !.k = @ + 1,
                     !.lugares_a_actualizar = IF resumen.largo > 0 THEN Append(@, pase.k) ELSE @,
                     !.nuevos_resumenes = IF resumen.largo > 0
                                          THEN [@ EXCEPT ![pase.k] = resumen] ELSE @,
                     !.visto = Append(@,
                         [k |-> pase.k, antes |-> lugar,
                          nuevas |-> Len(reviews_nuevas), validas |-> Len(reviews_validas),
                          ultima |-> IF todas = <<>> THEN 0 ELSE todas[Len(todas)].fecha,
                          detector |-> consulta, api |-> api, veredicto |-> veredicto,
                          resumidor |-> resume])]
    /\ UNCHANGED <<monitorVars, funVars, scraperVars, scroll, reviews_csv, reviews_lugar, vectores, hoy>>

\* after the loop, lines 314-372: the new summaries are saved, the
\* embeddings of the places to update are deleted, and the documents of
\* the new summaries are embedded.  PGVector.from_documents calls the
\* embeddings API and can raise: nothing is inserted then.
ActualizarEmbeddings ==
    /\ pase.pc = "bucle"
    /\ pase.k > Len(pase.lugares)
    /\ LET nombres_actualizar == Elementos(pase.lugares_a_actualizar)
           docs == [k \in 1..Len(vectores) |->
                       IF k \in nombres_actualizar /\ pase.nuevos_resumenes[k].largo > 0
                       THEN create_document(pase.nuevos_resumenes[k]) ELSE {}]
       IN  \E ok \in IF \E k \in 1..Len(docs) : docs[k] # {} THEN BOOLEAN ELSE {TRUE} :
           /\ lugares_emb' =
                 [k \in 1..Len(lugares_emb) |->
                     IF pase.nuevos_resumenes[k].largo > 0
                     THEN actualizar_resumen_lugar(lugares_emb, k,
                                                   pase.nuevos_resumenes[k], hoy)[k]
                     ELSE lugares_emb[k]]
           /\ vectores' =
                 [k \in 1..Len(vectores) |->
                     (IF k \in nombres_actualizar THEN {} ELSE vectores[k])
                     \cup (IF ok THEN docs[k] ELSE {})]
    /\ pase' = [pase EXCEPT !.pc = "inactivo"]
    /\ UNCHANGED <<monitorVars, funVars, scraperVars, scroll, reviews_csv, reviews_lugar, hoy>>

NextRegen ==
    \/ LlegaLote
    \/ IniciarPase
    \/ EvaluarLugar
    \/ ActualizarEmbeddings

SpecRegen == InitRegen /\ [][NextRegen]_vars

C23_SobreUmbral ==
    \A x \in 1..Len(pase.visto) :
        LET v == pase.visto[x]
            fila == lugares_emb[v.k]
        IN  (v.antes.resumen_reviews.largo > 0 /\ v.validas >= UMBRAL_VALIDAS) =>
                /\ v.detector
                /\ v.resumidor <=> v.veredicto
                /\ v.api.falla => v.resumidor
                /\ ~v.veredicto =>
                       /\ fila.resumen_reviews = v.antes.resumen_reviews
                       /\ fila.embedding_updated_at > v.antes.embedding_updated_at
                       /\ fila.embedding_updated_at >= v.ultima
                       /\ v.k \notin Elementos(pase.lugares_a_actualizar)

\* the API raised for a place with a full summary and 20 valid new
\* reviews, and the place was summarized again
C23_Testigo ==
    \E x \in 1..Len(pase.visto) :
        /\ pase.visto[x].antes.resumen_reviews.largo >= RESUMEN_MINIMO
        /\ pase.visto[x].validas = UMBRAL_VALIDAS
        /\ pase.visto[x].api.falla
        /\ pase.visto[x].resumidor
        /\ pase.visto[x].k \in Elementos(pase.lugares_a_actualizar)

\* C29: when a pass of regenerate_incremental is over, every place whose
\* embedding the pass deleted has the document of its new summary in the
\* vector store: a place that had an embedding before the pass has one
\* after it.
C29_ReemplazoEnElPase ==
    pase.pc = "inactivo" =>
        /\ \A k \in Elementos(pase.lugares_a_actualizar) :
               /\ pase.nuevos_resumenes[k].largo > 0
               /\ lugares_emb[k].resumen_reviews = pase.nuevos_resumenes[k]
               /\ vectores[k] = {pase.nuevos_resumenes[k].version}
        /\ \A k \in pase.habia : vectores[k] # {}

\* C24: every visit of a run appends exactly one row to scraping_logs, the
\* row of the place visited with the estado of that visit, and leaves the
\* rows already there as they were.
C24_UnRegistroPorVisita ==
    [][cuenta'.visitas # cuenta.visitas =>
          scraping_logs' = Append(scraping_logs,
                                  [url |-> visita'.url,
                                   estado |-> EstadoDash(visita'.estado)])]_vars

(***************************************************************************)
(* scraping_utils.scroll_para_cargar_reviews on its own.  cargados is the  *)
(* number of div.jftiEf blocks the page holds, transcurrido the seconds    *)
(* since scroll_start.  chequeos, leido, al_chequear and sin_cambio are    *)
(* observations: the turns of the loop so far, the count and the time the  *)
(* last turn read, and for how many turns in a row the count read was the  *)
(* count read the turn before (0 before the first turn).                   *)
(***************************************************************************)
\* scraping_utils.py line 389: tiempo_estancado > 8
ESTANCADO_MAX == 8

\* Bounds: the blocks a page can come to hold, and the two time limits
MaxBloques == 3
MaxLimite == 12
MaxLimiteCorto == 3

\* stagnation declared one turn early
EstancadoAntes(tiempo_estancado) == tiempo_estancado >= ESTANCADO_MAX

\* line 389
Estancado(tiempo_estancado) == tiempo_estancado > ESTANCADO_MAX

\* lines 371-373, for a target within the page's reach or beyond it, a
\* short or a long limit, and a page that shows no block or one block
InitScroll ==
    /\ Reposo({URL1})
    /\ ReposoScraper
    /\ ReposoRegen
    /\ reviews_csv = <<>>
    /\ entrada = SinEntrada
    /\ salida = SinSalida
    /\ \E t \in {MaxBloques - 1, MaxBloques + 1}, l \in {MaxLimiteCorto, MaxLimite},
          c \in {0, 1} :
          scroll = [SinScroll EXCEPT !.pc = "bucle", !.target = t,
                                     !.tiempo_limite_segundos = l, !.cargados = c]

\* one turn of the loop, lines 375-401.  The turn takes one second
\* (time.sleep(1)) or two; the scroll brings one more block or none.
ChequearScroll ==
    /\ scroll.pc = "bucle"
    /\ \E d \in {1, 2}, crece \in {0, 1} :
          LET conteo_actual == scroll.cargados
              vencido == scroll.transcurrido > scroll.tiempo_limite_segundos
              igual == conteo_actual = scroll.ultimo_conteo
              estancado1 == IF igual THEN scroll.tiempo_estancado + 1 ELSE 0
              sale == \/ vencido
                      \/ conteo_actual >= scroll.target
                      \/ igual /\ Estancado(estancado1)
              visto == [scroll EXCEPT
                          !.chequeos = @ + 1,
                          !.al_chequear = scroll.transcurrido,
                          !.leido = IF vencido THEN @ ELSE conteo_actual,
                          !.sin_cambio = IF vencido THEN @
                                         ELSE IF conteo_actual = scroll.leido THEN @ + 1
                                         ELSE 0]
          IN  scroll' =
                  IF sale
                  THEN [visto EXCEPT
                          !.pc = "fin",
                          !.tiempo_estancado =
                              IF vencido \/ conteo_actual >= scroll.target THEN @
                              ELSE estancado1]
                  ELSE [visto EXCEPT
                          !.tiempo_estancado = estancado1,
                          !.ultimo_conteo = conteo_actual,
                          !.cargados = IF @ + crece <= MaxBloques THEN @ + crece ELSE @,
                          !.transcurrido = @ + d]
    /\ UNCHANGED <<monitorVars, funVars, scraperVars, regenVars, reviews_csv>>

NextScroll == ChequearScroll

\* the loop is run: a turn that can be taken is taken
SpecScroll == InitScroll /\ [][NextScroll]_vars /\ WF_vars(ChequearScroll)

\* C25: scroll_para_cargar_reviews ends, and the turn at which it leaves
\* the loop is the first one at which the count read has reached target, or
\* the count read has been the same for more than 8 turns in a row, or
\* more than tiempo_limite_segundos have passed: at every earlier turn none
\* of the three held, and at the last one at least one does.
C25_ScrollPara ==
    /\ [](scroll.chequeos > 0 =>
             (scroll.pc = "fin" <=>
                 \/ scroll.leido >= scroll.target
                 \/ scroll.sin_cambio > ESTANCADO_MAX
                 \/ scroll.al_chequear > scroll.tiempo_limite_segundos))
    /\ <>(scroll.pc = "fin")

\* the loop was left for stagnation alone, after blocks had been loaded
C25_Testigo ==
    /\ scroll.pc = "fin"
    /\ scroll.leido > 1
    /\ scroll.leido < scroll.target
    /\ scroll.sin_cambio = ESTANCADO_MAX + 1
    /\ scroll.al_chequear <= scroll.tiempo_limite_segundos

(***************************************************************************)
(* opiniones-scraper.py, the reviews file.  A row of reviews_neuquen.csv   *)
(* is kept as the columns url, autor, texto, fecha_original and review_id  *)
(* of the fifteen that guardar_reviews writes (lines 225-227).             *)
(***************************************************************************)
\* Bound: the rows the file comes to hold
MaxCsv == 4

\* lines 191-217: the ids regenerated from the rows of the url.  The file
\* has no column "fecha": row.get('fecha', '') is the default.
cargar_reviews_existentes_por_url(archivo, url) ==
    {LET row == archivo[k]
         fecha == IF "fecha" \in DOMAIN row THEN row.fecha ELSE <<>>
     IN  generar_id_review(row.url, row.autor, fecha, row.texto) :
        k \in {x \in 1..Len(archivo) : archivo[x].url = url}}

\* lines 497-535: the row of one block.  fecha is NULO when the block has
\* no span.rsqaWe; csv writes None as the empty field.
FilaCsv(bloque, url) ==
    LET autor == Strip(bloque.autor)
        texto == Strip(bloque.texto)
        fecha_texto == IF bloque.fecha = NULO THEN NULO ELSE Strip(bloque.fecha)
    IN  [url |-> url, autor |-> autor, texto |-> texto,
         fecha_original |-> OVacio(fecha_texto),
         review_id |-> generar_id_review(url, autor, fecha_texto, texto)]

InitCsv ==
    /\ Reposo({URL1})
    /\ ReposoScraper
    /\ ReposoRegen
    /\ scroll = SinScroll
    /\ entrada = SinEntrada
    /\ salida = SinSalida
    /\ reviews_csv = <<>>

\* procesar_restaurante for one url and the guardar_reviews of its
\* result (lines 486-535 and 628-629): the page shows the first n reviews
\* of the place, with their dates or without the date element.
ProcesarUrlCsv ==
    \E url \in {URL1, URL2}, sin_fecha \in BOOLEAN :
    \E n \in 1..Len(Universo(url)) :
       LET ids_existentes == cargar_reviews_existentes_por_url(reviews_csv, url)
           bloques == [k \in 1..n |->
                          IF sin_fecha THEN [Universo(url)[k] EXCEPT !.fecha = NULO]
                          ELSE Universo(url)[k]]
           filas == [k \in 1..n |-> FilaCsv(bloques[k], url)]
           reviews_data == SelectSeq(filas, LAMBDA f : f.review_id \notin ids_existentes)
       IN  /\ Len(reviews_csv) + Len(reviews_data) <= MaxCsv
           /\ reviews_csv' = reviews_csv \o reviews_data
           /\ UNCHANGED <<monitorVars, funVars, scraperVars, regenVars, scroll>>

NextCsv == ProcesarUrlCsv

SpecCsv == InitCsv /\ [][NextCsv]_vars

\* C26: for every row of reviews_neuquen.csv, the ids that
\* cargar_reviews_existentes_por_url returns for the row's url hold the
\* row's review_id; and no review is in the file twice (no two rows of one
\* url carry the same review_id).
C26_IdsAlmacenados ==
    /\ \A k \in 1..Len(reviews_csv) :
           reviews_csv[k].review_id
               \in cargar_reviews_existentes_por_url(reviews_csv, reviews_csv[k].url)
    /\ \A k, x \in 1..Len(reviews_csv) :
           (k # x /\ reviews_csv[k].url = reviews_csv[x].url) =>
               reviews_csv[k].review_id # reviews_csv[x].review_id

\* C27: the count stored for a place (lugares.total_reviews_google, what
\* the next visit compares the page's count with) never runs ahead of the
\* reviews stored for the place: no visit records reviews as seen that it
\* did not store.
C27_ConteoNoAdelanta ==
    \A u \in Urls :
        lugares[u].total_reviews_google
            <= Cardinality({k \in 1..Len(reviews) : reviews[k].restaurante = Nombre(u)})

(***************************************************************************)
(* db_utils.insertar_reviews_batch applied on its own: to a table of up to *)
(* MaxTabla stored reviews of one place and to a batch that                *)
(* extraer_reviews_de_pagina returns for a page of up to MaxLote blocks    *)
(* and the last N_ULTIMAS rows of that table.                              *)
(***************************************************************************)
MaxTabla == 3
MaxLote == 2

\* insertar_reviews_batch with the outcome of conn.commit() (line 252): when
\* it raises, the except of lines 255-260 rolls the transaction back and
\* the function returns the counters as they are (line 264)
insertar_reviews_batch_commit(tabla, reviews_data, indice, conectado, commit_ok) ==
    LET r == insertar_reviews_batch(tabla, reviews_data, indice, conectado)
    IN  IF commit_ok THEN r ELSE [r EXCEPT !.tabla = tabla]

EntradasInsertar ==
    {[tabla |-> [k \in 1..Len(t) |->
                    FilaTabla(FilaDeBloque(t[k], URL1, Nombre(URL1)))],
      bloques |-> p, indice |-> x, commit_ok |-> c] :
        t \in SeqsDe(Items, 0, MaxTabla), p \in SeqsDe(Items, 1, MaxLote),
        x \in BOOLEAN, c \in BOOLEAN}

InitInsertar ==
    /\ Reposo({URL1})
    /\ ReposoScraper
    /\ ReposoOtros
    /\ entrada \in EntradasInsertar
    /\ salida = [hecha |-> FALSE, reviews |-> <<>>, tabla |-> <<>>,
                 insertadas |-> 0, duplicadas |-> 0]

\* lines 241-245 of run_monitor: the reviews extracted from the page, when
\* there are any, are handed to insertar_reviews_batch
AplicarInsertar ==
    /\ ~salida.hecha
    /\ LET nombre == Nombre(URL1)
           ultimas == get_ultimas_N_reviews_restaurante(entrada.tabla, nombre, N_ULTIMAS)
           ex == extraer_reviews_de_pagina(entrada.bloques, URL1, nombre, ultimas)
           r == insertar_reviews_batch_commit(entrada.tabla, ex.reviews,
                                              entrada.indice, TRUE, entrada.commit_ok)
       IN  /\ ex.reviews # <<>>
           /\ salida' = [hecha |-> TRUE, reviews |-> ex.reviews, tabla |-> r.tabla,
                         insertadas |-> r.insertadas, duplicadas |-> r.duplicadas]
    /\ UNCHANGED <<monitorVars, entrada, scraperVars, otrosVars>>

NextInsertar == AplicarInsertar

SpecInsertar == InitInsertar /\ [][NextInsertar]_vars

\* C28: the first value insertar_reviews_batch returns (insertadas) is the
\* number of rows the call added to the table reviews, also when the
\* transaction was rolled back (then it is 0).
C28_InsertadasReales ==
    salida.hecha => salida.insertadas = Len(salida.tabla) - Len(entrada.tabla)


(***************************************************************************)
(* upsert_lugar under its three callers: the discovery scraper             *)
(* (restaurant-scraper.py), the monitor (monitor_reviews.py procesar_lugar)*)
(* and the repair script (reparar_lugares_faltantes.py).  entrada keeps    *)
(* the last call: who made it, for which url, the count it carried, the    *)
(* count stored before it, and whether the statement was committed.        *)
(***************************************************************************)
MaxConteo == 3

InitUpsert ==
    /\ Reposo({URL1, URL2})
    /\ ReposoScraper
    /\ ReposoOtros
    /\ entrada = [origen |-> "ninguno", url |-> URL1, llevado |-> 0, antes |-> 0,
                  ok |-> FALSE]
    /\ salida = SinSalida

\* one call of upsert_lugar(lugar_data) with lugar_data['total_reviews_google']
\* = llevado, at time reloj
LlamarUpsert(origen, url, llevado, ok) ==
    /\ reloj < MaxReloj
    /\ lugares' = upsert_lugar(lugares, url, llevado, reloj, ok)
    /\ reloj' = reloj + 1
    /\ entrada' = [origen |-> origen, url |-> url, llevado |-> llevado,
                   antes |-> lugares[url].total_reviews_google, ok |-> ok]
    /\ UNCHANGED <<reviews, indice_unico, historial, scraping_logs, fuente,
                   runVars, obsVars, salida, scraperVars, otrosVars>>

\* restaurant-scraper.py 325-339: the count the search result card showed,
\* 0 when the card had none (lines 192, 225-227)
Descubrir ==
    \E url \in Urls, total_reviews \in 0..MaxConteo, ok \in BOOLEAN :
        LlamarUpsert("descubrimiento", url, total_reviews, ok)

\* monitor_reviews.py 83-107 and 148: the count read from the page, and the
\* stored one when the page gave none
MonitorearUpsert ==
    \E url \in Urls, count_actual \in 0..MaxConteo, ok \in BOOLEAN :
        LET count_db == lugares[url].total_reviews_google
        IN LlamarUpsert("monitoreo", url,
                        IF count_actual > 0 THEN count_actual ELSE count_db, ok)

\* reparar_lugares_faltantes.py 61-94: the count of extraer_metricas_rapido
Reparar ==
    \E url \in Urls, count \in 0..MaxConteo, ok \in BOOLEAN :
        LlamarUpsert("reparacion", url, count, ok)

NextUpsert == Descubrir \/ MonitorearUpsert \/ Reparar

SpecUpsert == InitUpsert /\ [][NextUpsert]_vars

\* C30: no call of upsert_lugar, from discovery, monitoring or repair,
\* lowers the total_reviews_google stored for a place, whatever count the
\* call carries (0 and counts under the stored one included); the other
\* places' counts are not lowered either.
C30_ConteoNoBaja ==
    [][\A u \in Urls :
           lugares'[u].total_reviews_google >= lugares[u].total_reviews_google]_vars

\* a committed call that carried a count under the stored one (0 here), and
\* the stored count is still what it was
C30_Testigo ==
    /\ entrada.origen = "reparacion"
    /\ entrada.ok
    /\ entrada.antes = 2
    /\ entrada.llevado = 0
    /\ lugares[entrada.url].total_reviews_google = 2

=============================================================================
